---- MODULE Spec2Model ----
(***************************************************************************)
(* kuzudb/dspy-text2cypher: the GraphRAG pipeline of text2cypher.py        *)
(* (prune -> text2cypher -> execute -> generate_answer, fanned out by      *)
(* asyncio.gather in main) and the schema introspection of utils.py.       *)
(*                                                                         *)
(* Two specifications share the variables:                                 *)
(*   Spec        main(questions): one schema fetch, then the batch.        *)
(*   SchemaSpec  get_schema_dict applied repeatedly to an unchanged        *)
(*               catalog drawn from a bounded set.                         *)
(***************************************************************************)
EXTENDS Integers, Sequences, FiniteSets, TLC

\* ------------------------------------------------------------- bounds
MaxQuestions == 2        \* longest batch handed to main
MaxConn == 1             \* most endpoint pairs of one relationship table
MaxFetches == 2          \* introspections of one catalog under SchemaSpec

\* ------------------------------------------------------------- values
NoneVal == [type |-> "None"]
Unset == [type |-> "Unset"]

QuestionTexts == {"Q1", "Q2"}
NodeLabels == {"Person", "Forum"}
RelLabels == {"knows", "hasMember"}

\* Python's str() of a dict or list: the text rendering the value, a string and
\* no longer the value itself.
str(x) == [type |-> "str", text |-> x]

\* The sequences over S of length at most n.
SeqsUpTo(S, n) == UNION {[1..k -> S] : k \in 0..n}

\* All enumeration orders of a finite set, as sequences without repetition.
RECURSIVE Orders(_)
Orders(S) ==
    IF S = {} THEN {<< >>}
    ELSE UNION {{<<x>> \o rest : rest \in Orders(S \ {x})} : x \in S}

\* ------------------------------------------------------------- database catalog
\* TABLE_INFO rows: <<property id, name, type>> (row[1], row[2] in Python).
TableInfo ==
    [t \in NodeLabels \cup RelLabels |->
        IF t = "Person" THEN << <<0, "id", "INT64">>, <<1, "name", "STRING">> >>
        ELSE IF t = "hasMember" THEN << <<0, "joinDate", "TIMESTAMP">> >>
        ELSE << >>]

\* A catalog: node tables, relationship tables, each relationship table's
\* declared (source, target) endpoint pairs, each table's columns.
Catalogs ==
    UNION { UNION {
        [ nodes : {N}, rels : {R},
          conn : [R -> {P \in SUBSET (N \X N) : Cardinality(P) >= 1 /\ Cardinality(P) <= MaxConn}],
          info : {[t \in N \cup R |-> TableInfo[t]]} ]
        : R \in {X \in SUBSET RelLabels : N # {} \/ X = {}} }
        : N \in SUBSET NodeLabels }

\* SHOW_TABLES rows: <<table id, name, type>> (row[1] is the name).
ShowTablesRows(order, type) == [k \in 1..Len(order) |-> <<k - 1, order[k], type>>]

\* ------------------------------------------------------------- get_schema_dict
\* utils.py 14-17: the names of the listed tables.
TableNames(response) == [k \in 1..Len(response) |-> response[k][2]]

\* utils.py 22: one relationship record per SHOW_CONNECTION row; row[0] is the
\* source label, row[1] the target label.
RelRecord_swapped(tbl_name, row) == [name |-> tbl_name, from |-> row[2], to |-> row[1]]
RelRecord(tbl_name, row) == [name |-> tbl_name, from |-> row[1], to |-> row[2]]

\* utils.py 18-22: the nested loop over rel_tables and their connection rows.
RECURSIVE Relationships(_, _)
Relationships(rel_tables, connRows) ==
    IF rel_tables = << >> THEN << >>
    ELSE LET tbl_name == Head(rel_tables)
             rows == connRows[tbl_name]
         IN [k \in 1..Len(rows) |-> RelRecord(tbl_name, rows[k])]
            \o Relationships(Tail(rel_tables), connRows)

\* utils.py 28-29, 40-41: the property list of a table.
Properties(rows) == [k \in 1..Len(rows) |-> [name |-> rows[k][2], type |-> rows[k][3]]]

\* utils.py 25-30
NodeSchema(node, infoRows) == [label |-> node, properties |-> Properties(infoRows[node])]

\* utils.py 32-42
EdgeSchema(rel, infoRows) ==
    [label |-> rel.name, from |-> rel.from, to |-> rel.to,
     properties |-> Properties(infoRows[rel.name])]

\* utils.py 13-43: the schema built from the database's responses.
get_schema_dict(nodeRows, relRows, connRows, infoRows) ==
    LET nodes == TableNames(nodeRows)
        rel_tables == TableNames(relRows)
        relationships == Relationships(rel_tables, connRows)
    IN [nodes |-> [k \in 1..Len(nodes) |-> NodeSchema(nodes[k], infoRows)],
        edges |-> [k \in 1..Len(relationships) |-> EdgeSchema(relationships[k], infoRows)]]

\* ------------------------------------------------------------- exceptions
\* The base class of each exception class the pipeline can meet.
ExcParent ==
    [c \in {"RuntimeError", "NotImplementedError", "TypeError", "AdapterParseError"} |->
        IF c = "NotImplementedError" THEN "RuntimeError" ELSE "Exception"]

\* Python's issubclass over the classes above.
RECURSIVE IsSubclass(_, _)
IsSubclass(cls, base) ==
    \/ cls = base
    \/ cls \in DOMAIN ExcParent /\ IsSubclass(ExcParent[cls], base)

\* text2cypher.py 138: the handler of run_query's try block.
Caught_nothing(cls) == FALSE
Caught(cls) == IsSubclass(cls, "RuntimeError")

\* An exception object as a task outcome; stage names the call that raised.
Exc(cls, stage) == [type |-> "Exception", cls |-> cls, stage |-> stage]

\* ------------------------------------------------------------- model and database responses
\* The structured-output validation error raised by a dspy predictor call.
ValidationError == "AdapterParseError"

\* pruned_schema values the model can return (the second is the degenerate one).
PrunedSchemas ==
    { [nodes |-> << [label |-> "Person", properties |-> NoneVal] >>, edges |-> << >>],
      [nodes |-> << >>, edges |-> << >>] }

\* Query texts the model can return in Query.query, as character sequences.
LineBreaks == {"\n", "\r"}
QueryTexts == { <<"q">>, <<"q", "\n", "r">>, <<"q", "\r">> }
HasLineBreak(text) == \E k \in 1..Len(text) : text[k] \in LineBreaks

\* What conn.execute(query) and the iteration of its rows can do.
DbRowSets == { << >>, << <<42>> >>, << <<1, 2>>, <<3, 4>> >> }
DbExcClasses == {"RuntimeError", "NotImplementedError", "TypeError"}
DbOutcomes ==
    [kind : {"rows"}, rows : DbRowSets]
    \cup [kind : {"raise"}, at : {"execute", "iterate"}, cls : DbExcClasses]

\* text2cypher.py 137: [item for row in result for item in row]
RECURSIVE Flatten(_)
Flatten(rows) == IF rows = << >> THEN << >> ELSE Head(rows) \o Flatten(Tail(rows))

List(items) == [type |-> "list", items |-> items]

\* text2cypher.py 134-141: the pair run_query returns for a database outcome
\* that does not propagate.
RunQueryResult(query, outcome) ==
    IF outcome.kind = "rows" THEN <<query, List(Flatten(outcome.rows))>>
    ELSE <<query, NoneVal>>

\* text2cypher.py 134-140: does the database outcome leave run_query as an
\* exception?
Propagates(outcome) == outcome.kind = "raise" /\ ~Caught(outcome.cls)

\* text2cypher.py 122: the schema argument of the text2cypher call.
Text2CypherSchema_full(input_schema, pruned_schema) == input_schema
Text2CypherSchema(input_schema, pruned_schema) == pruned_schema

\* text2cypher.py 156: the test that skips answer synthesis.
SkipsAnswer_never(final_context) == FALSE
SkipsAnswer(final_context) == final_context = NoneVal

\* text2cypher.py 160-162: the generate_answer call.
AnswerCall(question, final_query, final_context) ==
    [fn |-> "generate_answer", question |-> question, cypher_query |-> final_query,
     context |-> str(final_context)]

\* The model's response to a generate_answer call: a Prediction whose text is
\* derived from the call's inputs.
Prediction(c) ==
    [type |-> "Prediction", question |-> c.question, cypher_query |-> c.cypher_query,
     context |-> c.context]

\* text2cypher.py 177: the return_exceptions argument of asyncio.gather.
return_exceptions_false == FALSE
return_exceptions == TRUE

VARIABLES
    catalog,        \* the database catalog (read-only connection: never changes)
    fetches,        \* number of get_schema_dict evaluations so far
    lastDict,       \* the latest get_schema_dict result
    prevDict,       \* the one before it
    questions,      \* main's argument
    mainpc,         \* main's position: start, schema, gather, done, raised
    schema,         \* main's local schema (line 169)
    ready,          \* the event loop's FIFO of tasks not yet started
    running,        \* the task the event loop is executing, 0 for none
    pc,             \* per task: scheduled, prune, text2cypher, execute,
                    \*           returned, generate_answer, done
    input_schema,   \* per task: the input_schema argument of aforward
    pruned_schema,  \* per task: get_cypher_query's local schema (line 121)
    query,          \* per task: run_query's local query (line 133)
    final_context,  \* per task: aforward's locals (final_query, final_context)
    call,           \* per task: the model call in flight
    calls,          \* per task: how often each stage was invoked
    dbEvent,        \* per task: what the database did with the query
    ranQuery,       \* per task: what run_query returned: no, absent, present
    failed,         \* per task: the stage whose response failed validation, or none
    taskResult,     \* per task: the result or exception of the finished task
    results         \* main's local results (line 177)

schemaVars == <<catalog, fetches, lastDict, prevDict>>
mainVars == <<questions, mainpc, schema, results>>
loopVars == <<ready, running>>
taskVars == <<pc, input_schema, pruned_schema, query, final_context, call>>
histVars == <<calls, dbEvent, ranQuery, failed, taskResult>>
vars == <<schemaVars, mainVars, loopVars, taskVars, histVars>>

Tasks == 1..Len(questions)
Stages == {"prune", "text2cypher", "execute", "generate_answer"}

\* One evaluation of the get_schema_dict property against the connection; the
\* database enumerates tables and endpoint pairs in an order of its choosing.
Introspect ==
    \E nodeOrder \in Orders(catalog.nodes), relOrder \in Orders(catalog.rels) :
      \E connRows \in [catalog.rels -> UNION {Orders(catalog.conn[r]) : r \in catalog.rels}] :
        /\ \A r \in catalog.rels : connRows[r] \in Orders(catalog.conn[r])
        /\ lastDict' = get_schema_dict(ShowTablesRows(nodeOrder, "NODE"),
                                       ShowTablesRows(relOrder, "REL"),
                                       connRows, catalog.info)
        /\ prevDict' = lastDict
        /\ fetches' = fetches + 1
        /\ UNCHANGED catalog

\* Nothing of main has run: no question, no task.
Idle ==
    /\ fetches = 0
    /\ lastDict = Unset
    /\ prevDict = Unset
    /\ mainpc = "start"
    /\ schema = Unset
    /\ results = Unset
    /\ ready = << >>
    /\ running = 0
    /\ pc = << >>
    /\ input_schema = << >>
    /\ pruned_schema = << >>
    /\ query = << >>
    /\ final_context = << >>
    /\ call = << >>
    /\ calls = << >>
    /\ dbEvent = << >>
    /\ ranQuery = << >>
    /\ failed = << >>
    /\ taskResult = << >>

InitSchema ==
    /\ catalog \in Catalogs
    /\ questions = << >>
    /\ Idle

Refetch ==
    /\ fetches < MaxFetches
    /\ Introspect
    /\ UNCHANGED <<mainVars, loopVars, taskVars, histVars>>

NextSchema == Refetch

SchemaSpec == InitSchema /\ [][NextSchema]_vars

\* ------------------------------------------------------------- main
\* Catalogs the batch is run against.
PipelineCatalogs ==
    {c \in Catalogs : c.nodes \subseteq {"Person"} /\ c.rels \subseteq {"knows"}}

Init ==
    /\ catalog \in PipelineCatalogs
    /\ questions \in SeqsUpTo(QuestionTexts, MaxQuestions)
    /\ Idle

\* text2cypher.py 167-169: open the database, schema = str(get_schema_dict).
FetchSchema ==
    /\ mainpc = "start"
    /\ Introspect
    /\ schema' = str(lastDict')
    /\ mainpc' = "schema"
    /\ UNCHANGED <<questions, results, loopVars, taskVars, histVars>>

\* text2cypher.py 171-177: one aforward coroutine per question, each given the
\* same schema; gather wraps them into tasks, scheduled in input order, and
\* main suspends.
CreateTasks ==
    /\ mainpc = "schema"
    /\ mainpc' = "gather"
    /\ pc' = [i \in Tasks |-> "scheduled"]
    /\ input_schema' = [i \in Tasks |-> schema]
    /\ pruned_schema' = [i \in Tasks |-> Unset]
    /\ query' = [i \in Tasks |-> Unset]
    /\ final_context' = [i \in Tasks |-> Unset]
    /\ call' = [i \in Tasks |-> Unset]
    /\ calls' = [i \in Tasks |-> [s \in Stages |-> 0]]
    /\ dbEvent' = [i \in Tasks |-> Unset]
    /\ ranQuery' = [i \in Tasks |-> "no"]
    /\ failed' = [i \in Tasks |-> "none"]
    /\ taskResult' = [i \in Tasks |-> Unset]
    /\ ready' = [i \in Tasks |-> i]
    /\ running' = 0
    /\ UNCHANGED <<schemaVars, questions, schema, results>>

\* asyncio.gather's result list: the children's results by argument position.
gather_results_reversed == [i \in Tasks |-> taskResult[Len(questions) + 1 - i]]
gather_results == [i \in Tasks |-> taskResult[i]]

\* text2cypher.py 177-179: gather's future resolves once the loop has run the
\* children; main resumes, prints and returns. Without return_exceptions the
\* first exception of a child is raised in main instead.
GatherReturns ==
    /\ mainpc = "gather"
    /\ running = 0
    /\ ready = << >>
    /\ IF return_exceptions \/ \A i \in Tasks : taskResult[i].type # "Exception"
       THEN /\ results' = gather_results
            /\ mainpc' = "done"
       ELSE /\ results' = results
            /\ mainpc' = "raised"
    /\ UNCHANGED <<schemaVars, questions, schema, loopVars, taskVars, histVars>>

\* ------------------------------------------------------------- one task
\* The coroutine returns or raises: the task holds the outcome, its frame is
\* gone, and the event loop is free again.
Finish(i, outcome) ==
    /\ taskResult' = [taskResult EXCEPT ![i] = outcome]
    /\ pc' = [pc EXCEPT ![i] = "done"]
    /\ pruned_schema' = [pruned_schema EXCEPT ![i] = Unset]
    /\ query' = [query EXCEPT ![i] = Unset]
    /\ final_context' = [final_context EXCEPT ![i] = Unset]
    /\ call' = [call EXCEPT ![i] = Unset]
    /\ running' = 0

\* An exception leaves aforward: no handler stands between the raising call
\* and the task boundary, so the task ends holding the exception.
Uncaught_swallowed(i, cls, stage) == Finish(i, NoneVal)
Uncaught(i, cls, stage) == Finish(i, Exc(cls, stage))

\* The response of a model call fails validation of its output fields.
FailsValidation(i, stage) ==
    /\ failed' = [failed EXCEPT ![i] = stage]
    /\ Uncaught(i, ValidationError, stage)

Invoke(i, stage) == calls' = [calls EXCEPT ![i][stage] = @ + 1]

\* The event loop starts the next task. aforward (155) enters run_query (132),
\* get_cypher_query (120) and issues the prune call.
StartTask(i) ==
    /\ mainpc = "gather"
    /\ running = 0
    /\ ready # << >>
    /\ Head(ready) = i
    /\ pc[i] = "scheduled"
    /\ ready' = Tail(ready)
    /\ running' = i
    /\ pc' = [pc EXCEPT ![i] = "prune"]
    /\ call' = [call EXCEPT ![i] =
                  [fn |-> "prune", question |-> questions[i],
                   input_schema |-> input_schema[i]]]
    /\ Invoke(i, "prune")
    /\ UNCHANGED <<schemaVars, mainVars, input_schema, pruned_schema, query,
                   final_context, dbEvent, ranQuery, failed, taskResult>>

\* text2cypher.py 120-122: the prune call returns a valid GraphSchema; the
\* text2cypher call is issued with it.
PruneReturns(i) ==
    /\ running = i
    /\ pc[i] = "prune"
    /\ \E p \in PrunedSchemas :
         /\ pruned_schema' = [pruned_schema EXCEPT ![i] = p]
         /\ call' = [call EXCEPT ![i] =
                       [fn |-> "text2cypher", question |-> questions[i],
                        input_schema |-> Text2CypherSchema(input_schema[i], p)]]
    /\ pc' = [pc EXCEPT ![i] = "text2cypher"]
    /\ Invoke(i, "text2cypher")
    /\ UNCHANGED <<schemaVars, mainVars, loopVars, input_schema, query,
                   final_context, dbEvent, ranQuery, failed, taskResult>>

\* text2cypher.py 120: the prune response fails validation; nothing between
\* the call and the task boundary handles it.
PruneFails(i) ==
    /\ running = i
    /\ pc[i] = "prune"
    /\ FailsValidation(i, "prune")
    /\ UNCHANGED <<schemaVars, mainVars, ready, input_schema, calls, dbEvent, ranQuery>>

\* text2cypher.py 122-124, 132-133: the text2cypher call returns a Query;
\* run_query takes its query field as it is.
Text2CypherReturns(i) ==
    /\ running = i
    /\ pc[i] = "text2cypher"
    /\ \E q \in QueryTexts : query' = [query EXCEPT ![i] = q]
    /\ call' = [call EXCEPT ![i] = Unset]
    /\ pc' = [pc EXCEPT ![i] = "execute"]
    /\ UNCHANGED <<schemaVars, mainVars, loopVars, input_schema, pruned_schema,
                   final_context, histVars>>

\* text2cypher.py 122: the text2cypher response fails validation.
Text2CypherFails(i) ==
    /\ running = i
    /\ pc[i] = "text2cypher"
    /\ FailsValidation(i, "text2cypher")
    /\ UNCHANGED <<schemaVars, mainVars, ready, input_schema, calls, dbEvent, ranQuery>>

\* text2cypher.py 134-141, 155: conn.execute and the flattening of its rows
\* inside the try block; run_query returns to aforward or raises through it.
ExecuteQuery(i) ==
    /\ running = i
    /\ pc[i] = "execute"
    /\ Invoke(i, "execute")
    /\ \E outcome \in DbOutcomes :
         /\ dbEvent' = [dbEvent EXCEPT ![i] = outcome]
         /\ IF Propagates(outcome)
            THEN /\ Uncaught(i, outcome.cls, "execute")
                 /\ UNCHANGED ranQuery
            ELSE /\ final_context' = [final_context EXCEPT ![i] = RunQueryResult(query[i], outcome)]
                 /\ ranQuery' = [ranQuery EXCEPT ![i] =
                       IF RunQueryResult(query[i], outcome)[2] = NoneVal
                       THEN "absent" ELSE "present"]
                 /\ pc' = [pc EXCEPT ![i] = "returned"]
                 /\ UNCHANGED <<running, pruned_schema, query, call, taskResult>>
    /\ UNCHANGED <<schemaVars, mainVars, ready, input_schema, failed>>

\* text2cypher.py 156-162: return None without a model call, or issue the
\* generate_answer call.
CheckContext(i) ==
    /\ running = i
    /\ pc[i] = "returned"
    /\ IF SkipsAnswer(final_context[i][2])
       THEN /\ Finish(i, NoneVal)
            /\ UNCHANGED calls
       ELSE /\ call' = [call EXCEPT ![i] =
                          AnswerCall(questions[i], final_context[i][1], final_context[i][2])]
            /\ pc' = [pc EXCEPT ![i] = "generate_answer"]
            /\ Invoke(i, "generate_answer")
            /\ UNCHANGED <<running, pruned_schema, query, final_context, taskResult>>
    /\ UNCHANGED <<schemaVars, mainVars, ready, input_schema, dbEvent, ranQuery, failed>>

\* text2cypher.py 160-163: the generate_answer call returns; aforward returns
\* the response.
AnswerReturns(i) ==
    /\ running = i
    /\ pc[i] = "generate_answer"
    /\ Finish(i, Prediction(call[i]))
    /\ UNCHANGED <<schemaVars, mainVars, ready, input_schema, calls, dbEvent, ranQuery, failed>>

\* text2cypher.py 160: the generate_answer response fails validation.
AnswerFails(i) ==
    /\ running = i
    /\ pc[i] = "generate_answer"
    /\ FailsValidation(i, "generate_answer")
    /\ UNCHANGED <<schemaVars, mainVars, ready, input_schema, calls, dbEvent, ranQuery>>

\* Any step of task i.
TaskStep(i) ==
    \/ StartTask(i)
    \/ PruneReturns(i)
    \/ PruneFails(i)
    \/ Text2CypherReturns(i)
    \/ Text2CypherFails(i)
    \/ ExecuteQuery(i)
    \/ CheckContext(i)
    \/ AnswerReturns(i)
    \/ AnswerFails(i)

Next ==
    \/ FetchSchema
    \/ CreateTasks
    \/ GatherReturns
    \/ \E i \in Tasks : StartTask(i)
    \/ \E i \in Tasks : PruneReturns(i)
    \/ \E i \in Tasks : PruneFails(i)
    \/ \E i \in Tasks : Text2CypherReturns(i)
    \/ \E i \in Tasks : Text2CypherFails(i)
    \/ \E i \in Tasks : ExecuteQuery(i)
    \/ \E i \in Tasks : CheckContext(i)
    \/ \E i \in Tasks : AnswerReturns(i)
    \/ \E i \in Tasks : AnswerFails(i)

Spec == Init /\ [][Next]_vars

\* ------------------------------------------------------------- properties
Range(f) == {f[k] : k \in DOMAIN f}
Raised(i) == dbEvent[i] # Unset /\ dbEvent[i].kind = "raise"
GotRows(i) == dbEvent[i] # Unset /\ dbEvent[i].kind = "rows"
ModelCallPcs == {"prune", "text2cypher", "generate_answer"}

\* C1 (as stated): whatever exception the database raises in execute or while
\* its rows are iterated, run_query returns (query_text, None) and the
\* exception never leaves the call.
C1_AnyDbErrorIsAbsorbed ==
    \A i \in DOMAIN pc :
        Raised(i) =>
            /\ ranQuery[i] = "absent"
            /\ taskResult[i].type # "Exception"
            /\ pc[i] = "returned" => final_context[i] = <<query[i], NoneVal>>

\* C1 (amended): a RuntimeError (or a subclass of it) raised by execute or by
\* the iteration of its rows makes run_query return (query_text, None); an
\* exception of any other class leaves run_query and ends the task with that
\* exception.
C1_RuntimeErrorIsAbsorbed ==
    \A i \in DOMAIN pc :
        Raised(i) =>
            IF IsSubclass(dbEvent[i].cls, "RuntimeError")
            THEN /\ ranQuery[i] = "absent"
                 /\ taskResult[i].type # "Exception"
                 /\ pc[i] = "returned" => final_context[i] = <<query[i], NoneVal>>
            ELSE /\ ranQuery[i] = "no"
                 /\ pc[i] = "done"
                 /\ taskResult[i] = Exc(dbEvent[i].cls, "execute")

C1_Witness ==
    \E i \in DOMAIN pc :
        /\ Raised(i) /\ dbEvent[i].cls = "RuntimeError" /\ dbEvent[i].at = "iterate"
        /\ pc[i] = "returned"
        /\ final_context[i] = <<query[i], NoneVal>>

\* C2: once run_query has returned (query_text, None) for a question,
\* generate_answer is never invoked for it and its outcome is None.
C2_AbsentSkipsSynthesis ==
    \A i \in DOMAIN pc :
        ranQuery[i] = "absent" =>
            /\ calls[i]["generate_answer"] = 0
            /\ pc[i] \in {"returned", "done"}
            /\ pc[i] = "done" => taskResult[i] = NoneVal
            /\ mainpc = "done" => results[i] = NoneVal

C2_Witness ==
    /\ mainpc = "done"
    /\ \E i \in DOMAIN pc : ranQuery[i] = "absent" /\ results[i] = NoneVal

\* C3 (as stated): the short-circuit covers a failed execution and also a
\* successful execution that returned zero rows: in both cases generate_answer
\* is not invoked and the outcome is None.
C3_EmptyResultSkipsSynthesis ==
    \A i \in DOMAIN pc :
        (Raised(i) /\ ranQuery[i] = "absent") \/ (GotRows(i) /\ dbEvent[i].rows = << >>) =>
            /\ calls[i]["generate_answer"] = 0
            /\ pc[i] = "done" => taskResult[i] = NoneVal

\* The outcome a question's own history allows, whatever its siblings did.
OwnOutcome(i) ==
    IF failed[i] # "none" THEN {Exc(ValidationError, failed[i])}
    ELSE IF Raised(i) THEN
        IF IsSubclass(dbEvent[i].cls, "RuntimeError") THEN {NoneVal}
        ELSE {Exc(dbEvent[i].cls, "execute")}
    ELSE IF GotRows(i) THEN
        { [type |-> "Prediction", question |-> questions[i], cypher_query |-> q,
           context |-> str(List(Flatten(dbEvent[i].rows)))] : q \in QueryTexts }
    ELSE {}

\* C4: a question ending in an exception cancels nothing: main never raises
\* out of the gather, and when the batch is done every question has run to
\* completion and holds, at its own position, the outcome of its own history.
C4_FailuresIsolated ==
    /\ mainpc # "raised"
    /\ mainpc = "done" =>
          /\ Len(results) = Len(questions)
          /\ \A i \in DOMAIN pc : pc[i] = "done" /\ results[i] \in OwnOutcome(i)

C4_Witness ==
    /\ mainpc = "done"
    /\ \E i, j \in DOMAIN pc :
          /\ i < j
          /\ results[i].type = "Exception"
          /\ results[j].type = "Prediction"

\* C5: the result sequence has the input's length and position i holds the
\* outcome of the task of question i; for a question whose query returned
\* [42] and was answered, next to one whose query failed to execute, the
\* results are the answer derived from context [42] and None at their own
\* positions.
C5_PositionalResults ==
    mainpc = "done" =>
        /\ Len(results) = Len(questions)
        /\ \A i \in DOMAIN pc :
              /\ results[i] = taskResult[i]
              /\ results[i].type = "Prediction" => results[i].question = questions[i]
              /\ (GotRows(i) /\ dbEvent[i].rows = << <<42>> >> /\ failed[i] = "none") =>
                    /\ results[i].type = "Prediction"
                    /\ results[i].context = str(List(<<42>>))
              /\ (Raised(i) /\ dbEvent[i].cls = "RuntimeError") => results[i] = NoneVal

C5_Witness ==
    /\ mainpc = "done"
    /\ questions = <<"Q1", "Q2">>
    /\ dbEvent[1] = [kind |-> "rows", rows |-> << <<42>> >>]
    /\ results[1].type = "Prediction" /\ results[1].context = str(List(<<42>>))
    /\ Raised(2) /\ dbEvent[2].at = "execute"
    /\ results[2] = NoneVal

\* C6: a validation failure in the pruning or the query-generation step is not
\* recovered: the executor and the synthesizer are never invoked for that
\* question and the batch result holds the exception object at its position.
C6_ValidationFailurePropagates ==
    \A i \in DOMAIN pc :
        failed[i] \in {"prune", "text2cypher"} =>
            /\ pc[i] = "done"
            /\ calls[i]["execute"] = 0 /\ calls[i]["generate_answer"] = 0
            /\ dbEvent[i] = Unset
            /\ taskResult[i] = Exc(ValidationError, failed[i])
            /\ mainpc = "done" => results[i].type = "Exception" /\ results[i] = taskResult[i]

C6_Witness ==
    /\ mainpc = "done"
    /\ \E i, j \in DOMAIN pc :
          /\ failed[i] = "prune" /\ results[i].type = "Exception"
          /\ failed[j] = "text2cypher" /\ results[j].type = "Exception"

\* C7 (as stated): while one question's model call is outstanding, every other
\* unfinished question of the batch can take a step of its own pipeline.
C7_SiblingsAdvanceDuringModelCall ==
    \A i, j \in DOMAIN pc :
        (i # j /\ pc[i] \in ModelCallPcs /\ pc[j] # "done") => ENABLED TaskStep(j)

\* C8 (as stated): the query text handed to the executor holds no line-break
\* character.
C8_QueryHasNoLineBreak ==
    \A i \in DOMAIN pc : pc[i] = "execute" => ~HasLineBreak(query[i])

\* The (relationship table, source, target) triples of a schema's edges and of
\* the catalog.
EdgeTriples(d) == {<<e.label, e.from, e.to>> : e \in Range(d.edges)}
CatalogTriples == UNION {{<<r, p[1], p[2]>> : p \in catalog.conn[r]} : r \in catalog.rels}

\* C9: the edges of the emitted schema are exactly the catalog's endpoint
\* pairs, source and target in the declared order, one edge per pair; a second
\* introspection of the unchanged catalog yields the same from/to pairs.
C9_EdgesMatchCatalog ==
    lastDict # Unset =>
        /\ EdgeTriples(lastDict) = CatalogTriples
        /\ Len(lastDict.edges) = Cardinality(CatalogTriples)
        /\ prevDict # Unset => EdgeTriples(prevDict) = EdgeTriples(lastDict)

C9_Witness ==
    /\ prevDict # Unset
    /\ prevDict.edges # lastDict.edges
    /\ \E e \in Range(lastDict.edges) : e.from # e.to

\* C10: per question the stages run in the order prune, text2cypher, execute,
\* generate_answer, each at most once and each only after the one before it
\* returned; text2cypher receives the pruner's output; the schema is fetched
\* once, before the batch, and every question is given that same schema.
C10_StageOrder ==
    /\ fetches <= 1
    /\ mainpc # "start" => fetches = 1 /\ schema = str(lastDict)
    /\ \A i \in DOMAIN pc :
          /\ \A s \in Stages : calls[i][s] <= 1
          /\ calls[i]["text2cypher"] <= calls[i]["prune"]
          /\ calls[i]["execute"] <= calls[i]["text2cypher"]
          /\ calls[i]["generate_answer"] <= calls[i]["execute"]
          /\ input_schema[i] = schema
          /\ pc[i] = "scheduled" => \A s \in Stages : calls[i][s] = 0
          /\ pc[i] = "prune" =>
                /\ call[i].fn = "prune" /\ call[i].input_schema = schema
                /\ calls[i]["text2cypher"] = 0
          /\ pc[i] = "text2cypher" =>
                /\ pruned_schema[i] \in PrunedSchemas
                /\ call[i].fn = "text2cypher" /\ call[i].input_schema = pruned_schema[i]
                /\ calls[i]["execute"] = 0
          /\ pc[i] \in {"execute", "returned"} => calls[i]["generate_answer"] = 0
          /\ pc[i] = "generate_answer" =>
                /\ call[i].fn = "generate_answer" /\ ranQuery[i] = "present"
                /\ call[i].cypher_query = query[i]

C10_Witness ==
    \E i \in DOMAIN pc :
        /\ pc[i] = "generate_answer"
        /\ \A s \in Stages : calls[i][s] = 1
        /\ \E j \in DOMAIN pc : j # i /\ input_schema[j] = input_schema[i]

====
